---- MODULE Spec2Model ----
(***************************************************************************)
(* kproc: the kill orchestrator (killByPid), the process-tree resolver     *)
(* (findDescendantPids), the batch layer (killByPids), the lookup cache    *)
(* (getCached / clearCache), the port lookup (findPidsByPort) and the port *)
(* entry points (killByPort, killByPorts, killByPortRange), as state       *)
(* machines.                                                               *)
(*                                                                         *)
(* Every `await` of the source is a suspension point.  An action of the    *)
(* model is the completion of one awaited operation (a command, a probe or *)
(* a timer) followed by the synchronous code that runs up to the next      *)
(* await.  The operating system is the environment: the set `alive` is the *)
(* true process table, and the outcome of each command is drawn from what  *)
(* the OS can answer in that state.                                        *)
(***************************************************************************)
EXTENDS Integers, Sequences, FiniteSets, TLC

\* ---------------------------------------------------------------- bounds
\* The `retries` option ranges over 0..MaxRetries.
MaxRetries == 2
\* killByPids is called with lists of at most MaxBatch PIDs.
MaxBatch == 3
\* The clock of the cache runs over 0..MaxTime.
MaxTime == 2
\* killByPorts is called with lists of at most MaxPorts ports.
MaxPorts == 2
\* killByPortRange is called with bounds in 0..MaxRange (and at MaxPort).
MaxRange == 2

\* The process table: PID 1 is the target of a single kill, 2 and 3 are the
\* other processes (its possible descendants, or further targets).
Pids == {1, 2, 3}
\* Inputs that fail the PID validation: 0 and -1 stand for every
\* non-positive or non-integer argument.
BadPids == {0, -1}

\* UnixSignal: three representatives.  "9" is the numeric signal 9, which
\* is not the string "SIGKILL" to the `!==` of the escalation guard.
Signals == {"SIGTERM", "SIGKILL", "9"}

\* utils.ts 33: a deadline of 0 (or none given) means no deadline.
NoDeadline == 0
\* utils.ts 140, 144: the deadline of the liveness probe, in ms.
PROBE_TIMEOUT_MS == 1000
\* The timeoutMs option of the calls, in ms.
Timeouts == {5}

VARIABLES
    opts,       \* KillOptions of the call under way (fixed once it starts)
    isWindows,  \* utils.isWindows: the platform variant
    alive,      \* environment: PIDs that exist in the OS right now
    procTree,   \* environment: procTree[p], the children of p in a
                \* well-formed process tree; empty when the process
                \* table is left unconstrained
    pids,       \* the argument list of the entry point
    task,       \* task[i]: the killByPid invocation for pids[i]
    batch,      \* the entry point called, its state and its result
    cache,      \* cache.ts: the process-wide Map, key -> CacheEntry
    now,        \* Date.now()
    calls,      \* calls[c]: the getCached invocation of caller c
    hist,       \* history of the cache: hist.cleared, the keys not looked
                \* up since the last clearCache; hist.lastFetch[k], the
                \* start time of the latest call whose fetch was stored
    listeners,  \* environment: listeners[port], the PIDs bound to the port
    ports,      \* the port list of killByPort / killByPorts / killByPortRange
    finds       \* finds[i]: the findPidsByPort invocation for ports[i]

killVars == <<opts, isWindows, alive, procTree, pids, task, batch>>
cacheVars == <<cache, now, calls, hist>>
portVars == <<listeners, ports, finds>>
vars == <<opts, isWindows, alive, procTree, pids, task, batch, cache, now,
          calls, hist, listeners, ports, finds>>

\* ------------------------------------------------------------- utilities
Range(s) == {s[i] : i \in 1..Len(s)}

Min(S) == CHOOSE x \in S : \A y \in S : x <= y

RECURSIVE SetToSeq(_)
\* The PIDs of S as `ps` prints them, one per line in ascending order.
SetToSeq(S) == IF S = {} THEN <<>> ELSE <<Min(S)>> \o SetToSeq(S \ {Min(S)})

\* ------------------------------------------------------- the environment
\* isProcessAlive: `kill -0` / `tasklist`.  TRUE needs the process to
\* exist; any error of the probe command (also a timeout of the 1000 ms
\* deadline) reads as "not alive".
ProbeOutcomes(p) == IF p \in alive THEN {TRUE, FALSE} ELSE {FALSE}

\* execText of a termination command.  "dies"/"survives": exit status 0,
\* the target ended or outlived the signal; "fail": CommandExecutionError;
\* "timeout": TimeoutError, which needs a deadline (utils.ts 33).
KillOutcomes(p) ==
    (IF p \in alive THEN {"dies", "survives", "fail"} ELSE {"fail"})
        \cup (IF opts.timeoutMs = NoDeadline THEN {} ELSE {"timeout"})

AliveAfter(p, out) == IF out = "dies" THEN alive \ {p} ELSE alive

\* execText of `ps -o pid= --ppid`: the children the probe reports, or a
\* failure of the command.  In a well-formed process tree the report of p
\* is the list of its children; otherwise (processes come and go, PIDs are
\* reused between two lookups) it is any list of PIDs.
ChildReports == {SetToSeq(S) : S \in SUBSET Pids}
LookupOutcomes(p) ==
    (IF p \in DOMAIN procTree
     THEN {[kind |-> "ok", children |-> procTree[p]]}
     ELSE [kind : {"ok"}, children : ChildReports])
        \cup {[kind |-> "fail", children |-> <<>>]}
        \cup (IF opts.timeoutMs = NoDeadline THEN {}
              ELSE {[kind |-> "timeout", children |-> <<>>]})

\* ------------------------------------------------------------ killByPid
\* A killByPid invocation that has not been entered.
IdleTask == [pc |-> "idle"]

\* One more OS command issued by the invocation r.  `sent` is the log of
\* the commands issued since the current attempt began (before the first
\* attempt: since the call began).
Issue(r, c) == [r EXCEPT !.sent = Append(@, c)]

\* The commands: what is run, on which PID, with which signal or flags,
\* and the deadline handed to execText.
KillCmd(r, target) ==
    [cmd |-> "kill", target |-> target, sig |-> r.usedSignal,
     deadline |-> opts.timeoutMs]
ProbeCmd(target) ==
    [cmd |-> "alive", target |-> target, sig |-> "0",
     deadline |-> PROBE_TIMEOUT_MS]
LookupCmd(target) ==
    [cmd |-> "children", target |-> target, sig |-> "-",
     deadline |-> opts.timeoutMs]

\* return <KillResult>
Return(r, res) == [r EXCEPT !.pc = "done", !.result = res]

\* Enter without the dry-run return of lines 71-74.
EnterNoDryRun(p) ==
    LET r0 == [pc |-> "start", pid |-> p, exists |-> "unknown", attempt |-> 0,
               usedSignal |-> opts.signal, lastError |-> "none",
               queue |-> <<>>, visited |-> {}, bfsResult |-> <<>>,
               lookedUp |-> <<>>, revisit |-> FALSE, lookupFailed |-> {},
               descendants |-> <<>>, childIdx |-> 0, childFailed |-> FALSE,
               sent |-> <<>>, rootSends |-> 0,
               escalations |-> 0, stillAlive |-> "unknown",
               result |-> [kind |-> "none"]]
    IN  IF p \notin Pids
        THEN [r0 EXCEPT !.pc = "thrown", !.lastError = "InvalidInput"]
        ELSE [Issue(r0, ProbeCmd(p)) EXCEPT !.pc = "precheck"]

\* Lines 48-77: validation, defaults, dry run, and the pre-check probe.
\* The fields are the locals of killByPid and of the traversal it calls
\* (`exists`, `stillAlive`: the probe answers held at lines 77 and 126),
\* and the history of the call: rootSends and escalations count the
\* commands of lines 95/117 and of line 131, lookedUp lists the PIDs whose
\* children the current traversal asked for, revisit tells whether one of
\* its lookups reported a PID already visited, lookupFailed holds the PIDs
\* whose child lookup failed in it, childFailed tells whether the signal to
\* a descendant failed in the current attempt.
Enter(p) ==
    LET r0 == [pc |-> "start", pid |-> p, exists |-> "unknown", attempt |-> 0,
               usedSignal |-> opts.signal, lastError |-> "none",
               queue |-> <<>>, visited |-> {}, bfsResult |-> <<>>,
               lookedUp |-> <<>>, revisit |-> FALSE, lookupFailed |-> {},
               descendants |-> <<>>, childIdx |-> 0, childFailed |-> FALSE,
               sent |-> <<>>, rootSends |-> 0,
               escalations |-> 0, stillAlive |-> "unknown",
               result |-> [kind |-> "none"]]
    IN  IF p \notin Pids
        THEN [r0 EXCEPT !.pc = "thrown", !.lastError = "InvalidInput"]
        ELSE IF opts.dryRun
        THEN Return(r0, [pid |-> p, success |-> TRUE, signal |-> opts.signal])
        ELSE [Issue(r0, ProbeCmd(p)) EXCEPT !.pc = "precheck"]

\* Lines 116-117 (and 92-95 on Windows): the termination command for the
\* root PID is issued.
IssueRoot(r) ==
    [Issue(r, IF isWindows
              THEN [cmd |-> "taskkill", target |-> r.pid,
                    sig |-> IF opts.tree THEN "/T /F" ELSE "/F",
                    deadline |-> opts.timeoutMs]
              ELSE KillCmd(r, r.pid))
        EXCEPT !.pc = "sendRoot", !.rootSends = @ + 1]

\* IssueChildFrom with the loop bound off by one: the last descendant is
\* skipped.
IssueChildFromOffByOne(r, i) ==
    IF i < Len(r.descendants)
    THEN [Issue(r, KillCmd(r, r.descendants[i]))
            EXCEPT !.pc = "sendChild", !.childIdx = i]
    ELSE IssueRoot(r)

\* Lines 106-108: the for-loop over the descendants, from index i on.
IssueChildFrom(r, i) ==
    IF i <= Len(r.descendants)
    THEN [Issue(r, KillCmd(r, r.descendants[i]))
            EXCEPT !.pc = "sendChild", !.childIdx = i]
    ELSE IssueRoot(r)

\* SkipVisited without the `visited.has(current)` test of line 112.
SkipVisitedNone(q, visited) == q

RECURSIVE SkipVisited(_, _)
\* core.ts 108-112: dequeue until a PID that has not been visited.
SkipVisited(q, visited) ==
    IF q # <<>> /\ Head(q) \in visited THEN SkipVisited(Tail(q), visited) ELSE q

\* core.ts 134: the root is filtered out of the result.
ExcludeRoot(res, root) == SelectSeq(res, LAMBDA p : p # root)

\* core.ts 108-117 and 133-138: the head of the while loop.  Either the
\* next unvisited PID is marked visited and its child lookup is issued, or
\* the queue is empty and the traversal returns to killByPid line 103.
BfsLoop(r) ==
    LET q == SkipVisited(r.queue, r.visited)
    IN  IF q # <<>>
        THEN [Issue(r, LookupCmd(Head(q)))
                EXCEPT !.pc = "lookup", !.queue = Tail(q),
                       !.visited = @ \cup {Head(q)},
                       !.lookedUp = Append(@, Head(q))]
        ELSE IssueChildFrom(
                [r EXCEPT !.queue = <<>>,
                          !.descendants = ExcludeRoot(r.bfsResult, r.pid)], 1)

\* BfsAdd that puts the new children in front of the result.
BfsAddFront(r, children) ==
    LET fresh == SelectSeq(children, LAMBDA c : c \notin r.visited)
    IN  [r EXCEPT !.bfsResult = fresh \o @, !.queue = @ \o fresh,
                  !.revisit = @ \/ (Range(children) \cap r.visited # {})]

\* core.ts 121-126: children not yet visited go to the result and the queue.
BfsAdd(r, children) ==
    LET fresh == SelectSeq(children, LAMBDA c : c \notin r.visited)
    IN  [r EXCEPT !.bfsResult = @ \o fresh, !.queue = @ \o fresh,
                  !.revisit = @ \/ (Range(children) \cap r.visited # {})]

\* BeginAttempt that starts every attempt from the configured signal again.
BeginAttemptConfiguredSignal(r) ==
    LET r1 == [r EXCEPT !.sent = <<>>, !.descendants = <<>>, !.childIdx = 0,
                        !.queue = <<>>, !.visited = {}, !.bfsResult = <<>>,
                        !.lookedUp = <<>>, !.revisit = FALSE,
                        !.lookupFailed = {}, !.childFailed = FALSE,
                        !.stillAlive = "unknown",
                        !.usedSignal = opts.signal]
    IN  IF isWindows \/ ~opts.tree
        THEN IssueRoot(r1)
        ELSE BfsLoop([r1 EXCEPT !.queue = <<r1.pid>>])

\* Lines 88-117: the head of the retry loop up to its first await.
BeginAttempt(r) ==
    LET r1 == [r EXCEPT !.sent = <<>>, !.descendants = <<>>, !.childIdx = 0,
                        !.queue = <<>>, !.visited = {}, !.bfsResult = <<>>,
                        !.lookedUp = <<>>, !.revisit = FALSE,
                        !.lookupFailed = {}, !.childFailed = FALSE,
                        !.stillAlive = "unknown"]
    IN  IF isWindows \/ ~opts.tree
        THEN IssueRoot(r1)
        ELSE BfsLoop([r1 EXCEPT !.queue = <<r1.pid>>])

\* AfterEscalation without the verification of lines 136-146.
AfterEscalationNoVerify(r) ==
    Return(r, [pid |-> r.pid, success |-> TRUE, signal |-> r.usedSignal])

\* AfterEscalation that reports the configured signal.
AfterEscalationConfigured(r) ==
    IF opts.verify
    THEN [r EXCEPT !.pc = "verifySleep"]
    ELSE Return(r, [pid |-> r.pid, success |-> TRUE, signal |-> opts.signal])

\* Lines 135-148: after the send (and the escalation), verify or return.
AfterEscalation(r) ==
    IF opts.verify
    THEN [r EXCEPT !.pc = "verifySleep"]
    ELSE Return(r, [pid |-> r.pid, success |-> TRUE, signal |-> r.usedSignal])

\* Lines 120-133: the root command succeeded.
AfterRootSent(r) ==
    IF opts.forceAfterTimeout /\ ~isWindows /\ r.usedSignal # "SIGKILL"
    THEN [r EXCEPT !.pc = "escSleep"]
    ELSE AfterEscalation(r)

\* Catch with `attempt <= retries` for the `attempt < retries` of line 155.
CatchOffByOne(r, err) ==
    IF r.attempt <= opts.retries
    THEN [r EXCEPT !.lastError = err, !.pc = "retrySleep"]
    ELSE Return([r EXCEPT !.lastError = err],
                [pid |-> r.pid, success |-> FALSE, signal |-> r.usedSignal,
                 error |-> err, verified |-> FALSE])

\* Catch that keeps the error of the first failed attempt.
CatchKeepFirst(r, err) ==
    LET first == IF r.lastError = "none" THEN err ELSE r.lastError
    IN  IF r.attempt < opts.retries
        THEN [r EXCEPT !.lastError = first, !.pc = "retrySleep"]
        ELSE Return([r EXCEPT !.lastError = first],
                    [pid |-> r.pid, success |-> FALSE, signal |-> r.usedSignal,
                     error |-> first, verified |-> FALSE])

\* Catch that starts the next attempt without the delay of lines 156-158.
CatchNoDelay(r, err) ==
    IF r.attempt < opts.retries
    THEN BeginAttempt([r EXCEPT !.lastError = err, !.attempt = @ + 1])
    ELSE Return([r EXCEPT !.lastError = err],
                [pid |-> r.pid, success |-> FALSE, signal |-> r.usedSignal,
                 error |-> err, verified |-> FALSE])

\* Catch without the `break` of line 160 and the failure result after the
\* loop: with no attempt left the call neither retries nor returns.
CatchNoExit(r, err) ==
    IF r.attempt < opts.retries
    THEN [r EXCEPT !.lastError = err, !.pc = "retrySleep"]
    ELSE [r EXCEPT !.lastError = err]

\* Lines 150-174: the catch block, and the failure result after the loop.
Catch(r, err) ==
    IF r.attempt < opts.retries
    THEN [r EXCEPT !.lastError = err, !.pc = "retrySleep"]
    ELSE Return([r EXCEPT !.lastError = err],
                [pid |-> r.pid, success |-> FALSE, signal |-> r.usedSignal,
                 error |-> err, verified |-> FALSE])

ErrorOf(out) == IF out = "fail" THEN "CommandExecution" ELSE "Timeout"

\* AfterPreCheck without the early return of lines 78-81.
AfterPreCheckNoReturn(r, exists) ==
    BeginAttempt([r EXCEPT !.exists = IF exists THEN "yes" ELSE "no"])

\* Lines 78-83: the answer of the pre-check probe.
AfterPreCheck(r, exists) ==
    IF ~exists
    THEN Return([r EXCEPT !.exists = "no"],
                [pid |-> r.pid, success |-> TRUE, verified |-> TRUE])
    ELSE BeginAttempt([r EXCEPT !.exists = "yes"])

\* AfterEscProbe without the assignment `usedSignal = "SIGKILL"` of line 130.
AfterEscProbeKeepSignal(r, stillAlive) ==
    IF stillAlive
    THEN [Issue(r, [cmd |-> "kill", target |-> r.pid, sig |-> "-9",
                    deadline |-> opts.timeoutMs])
            EXCEPT !.pc = "escSend", !.escalations = @ + 1,
                   !.stillAlive = "yes"]
    ELSE AfterEscalation([r EXCEPT !.stillAlive = "no"])

\* AfterEscProbe that resends `kill -9` to every descendant of the attempt
\* before the root.
AfterEscProbeWholeTree(r, stillAlive) ==
    IF stillAlive
    THEN [r EXCEPT !.usedSignal = "SIGKILL",
                   !.sent = @ \o [i \in 1..Len(r.descendants) |->
                                    [cmd |-> "kill", target |-> r.descendants[i],
                                     sig |-> "-9", deadline |-> opts.timeoutMs]]
                              \o <<[cmd |-> "kill", target |-> r.pid,
                                    sig |-> "-9", deadline |-> opts.timeoutMs]>>,
                   !.pc = "escSend", !.escalations = @ + 1,
                   !.stillAlive = "yes"]
    ELSE AfterEscalation([r EXCEPT !.stillAlive = "no"])

\* Lines 128-133: the answer of the escalation probe.
AfterEscProbe(r, stillAlive) ==
    IF stillAlive
    THEN [Issue([r EXCEPT !.usedSignal = "SIGKILL"],
                [cmd |-> "kill", target |-> r.pid, sig |-> "-9",
                 deadline |-> opts.timeoutMs])
            EXCEPT !.pc = "escSend", !.escalations = @ + 1,
                   !.stillAlive = "yes"]
    ELSE AfterEscalation([r EXCEPT !.stillAlive = "no"])

SetTask(t, r) == task' = [task EXCEPT ![t] = r]

\* killByPid(pid, options) is called on its own.
KillByPid ==
    /\ batch.api = "killByPid"
    /\ task[1].pc = "idle"
    /\ SetTask(1, Enter(pids[1]))
    /\ UNCHANGED <<opts, isWindows, procTree, alive, pids, batch, cacheVars, portVars>>

\* Line 77-81: the pre-check probe answers.
PreCheckDone(t) ==
    /\ task[t].pc = "precheck"
    /\ \E exists \in ProbeOutcomes(task[t].pid) :
         SetTask(t, AfterPreCheck(task[t], exists))
    /\ UNCHANGED <<opts, isWindows, procTree, alive, pids, batch, cacheVars, portVars>>

\* LookupDone that gives up the rest of the queue when a lookup fails.
LookupDoneAbort(t) ==
    /\ task[t].pc = "lookup"
    /\ LET r == task[t]
           current == r.lookedUp[Len(r.lookedUp)]
       IN  \E o \in LookupOutcomes(current) :
             SetTask(t, BfsLoop(IF o.kind = "ok"
                                THEN BfsAdd(r, o.children)
                                ELSE [r EXCEPT !.lookupFailed =
                                                    @ \cup {current},
                                               !.queue = <<>>]))
    /\ UNCHANGED <<opts, isWindows, procTree, alive, pids, batch, cacheVars, portVars>>

\* core.ts 117-131 with 33-67: a child lookup answers.  A failed command
\* is an empty list (findChildPidsOnce); a timeout is thrown and caught in
\* the traversal.  Both continue with the queue.
LookupDone(t) ==
    /\ task[t].pc = "lookup"
    /\ LET r == task[t]
           current == r.lookedUp[Len(r.lookedUp)]
       IN  \E o \in LookupOutcomes(current) :
             SetTask(t, BfsLoop(IF o.kind = "ok"
                                THEN BfsAdd(r, o.children)
                                ELSE [r EXCEPT !.lookupFailed =
                                                    @ \cup {current}]))
    /\ UNCHANGED <<opts, isWindows, procTree, alive, pids, batch, cacheVars, portVars>>

\* SendChildDone without the try/catch of lines 107-112: the failure of a
\* descendant's signal reaches the catch block of the attempt.
SendChildDoneAbort(t) ==
    /\ task[t].pc = "sendChild"
    /\ LET r == task[t]
           c == r.descendants[r.childIdx]
       IN  \E out \in KillOutcomes(c) :
             /\ alive' = AliveAfter(c, out)
             /\ SetTask(t, IF out \in {"fail", "timeout"}
                           THEN Catch([r EXCEPT !.childFailed = TRUE],
                                      ErrorOf(out))
                           ELSE IssueChildFrom(r, r.childIdx + 1))
    /\ UNCHANGED <<opts, isWindows, procTree, pids, batch, cacheVars, portVars>>

\* Lines 106-113: the signal to one descendant answers; a failure is only
\* logged.
SendChildDone(t) ==
    /\ task[t].pc = "sendChild"
    /\ LET r == task[t]
           c == r.descendants[r.childIdx]
       IN  \E out \in KillOutcomes(c) :
             /\ alive' = AliveAfter(c, out)
             /\ SetTask(t, IssueChildFrom(
                    IF out \in {"fail", "timeout"}
                    THEN [r EXCEPT !.childFailed = TRUE] ELSE r,
                    r.childIdx + 1))
    /\ UNCHANGED <<opts, isWindows, procTree, pids, batch, cacheVars, portVars>>

\* Lines 95/117: the termination command for the root answers.
SendRootDone(t) ==
    /\ task[t].pc = "sendRoot"
    /\ LET r == task[t]
       IN  \E out \in KillOutcomes(r.pid) :
             /\ alive' = AliveAfter(r.pid, out)
             /\ SetTask(t, IF out \in {"dies", "survives"}
                           THEN AfterRootSent(r)
                           ELSE Catch(r, ErrorOf(out)))
    /\ UNCHANGED <<opts, isWindows, procTree, pids, batch, cacheVars, portVars>>

\* Lines 125-126: escalationDelayMs has elapsed; the probe is issued.
EscSleepDone(t) ==
    /\ task[t].pc = "escSleep"
    /\ SetTask(t, [Issue(task[t], ProbeCmd(task[t].pid)) EXCEPT !.pc = "escProbe"])
    /\ UNCHANGED <<opts, isWindows, procTree, alive, pids, batch, cacheVars, portVars>>

\* Lines 126-132: the escalation probe answers.
EscProbeDone(t) ==
    /\ task[t].pc = "escProbe"
    /\ \E stillAlive \in ProbeOutcomes(task[t].pid) :
         SetTask(t, AfterEscProbe(task[t], stillAlive))
    /\ UNCHANGED <<opts, isWindows, procTree, alive, pids, batch, cacheVars, portVars>>

\* Line 131: `kill -9` answers.
EscSendDone(t) ==
    /\ task[t].pc = "escSend"
    /\ LET r == task[t]
       IN  \E out \in KillOutcomes(r.pid) :
             /\ alive' = AliveAfter(r.pid, out)
             /\ SetTask(t, IF out \in {"dies", "survives"}
                           THEN AfterEscalation(r)
                           ELSE Catch(r, ErrorOf(out)))
    /\ UNCHANGED <<opts, isWindows, procTree, pids, batch, cacheVars, portVars>>

\* Lines 137-138: the settle delay has elapsed; the probe is issued.
VerifySleepDone(t) ==
    /\ task[t].pc = "verifySleep"
    /\ SetTask(t, [Issue(task[t], ProbeCmd(task[t].pid)) EXCEPT !.pc = "verifyProbe"])
    /\ UNCHANGED <<opts, isWindows, procTree, alive, pids, batch, cacheVars, portVars>>

\* Lines 138-145: the verification probe answers.
VerifyProbeDone(t) ==
    /\ task[t].pc = "verifyProbe"
    /\ \E stillAlive \in ProbeOutcomes(task[t].pid) :
         SetTask(t, IF stillAlive
                    THEN Catch(task[t], "StillAlive")
                    ELSE Return(task[t], [pid |-> task[t].pid, success |-> TRUE,
                                          signal |-> task[t].usedSignal,
                                          verified |-> TRUE]))
    /\ UNCHANGED <<opts, isWindows, procTree, alive, pids, batch, cacheVars, portVars>>

\* Lines 156-158 and 88: the inter-retry delay has elapsed.
RetrySleepDone(t) ==
    /\ task[t].pc = "retrySleep"
    /\ SetTask(t, BeginAttempt([task[t] EXCEPT !.attempt = @ + 1]))
    /\ UNCHANGED <<opts, isWindows, procTree, alive, pids, batch, cacheVars, portVars>>

\* One step of the killByPid invocation t.
KillStep(t) ==
    \/ PreCheckDone(t)
    \/ LookupDone(t)
    \/ SendChildDone(t)
    \/ SendRootDone(t)
    \/ EscSleepDone(t)
    \/ EscProbeDone(t)
    \/ EscSendDone(t)
    \/ VerifySleepDone(t)
    \/ VerifyProbeDone(t)
    \/ RetrySleepDone(t)

\* ------------------------------------------------------------ killByPids
\* Lines 215-225: one settled promise becomes one KillResult.
ToKillResult(r, p) ==
    IF r.pc = "done"
    THEN r.result
    ELSE [pid |-> p, success |-> FALSE, error |-> r.lastError]

\* EnterAll that stops entering at the first PID whose killByPid throws.
EnterAllStopAtThrow(ps) ==
    [i \in 1..Len(ps) |->
        IF \E j \in 1..(i - 1) : ps[j] \notin Pids THEN IdleTask ELSE Enter(ps[i])]

\* Line 211: pids.map(pid => killByPid(pid, options)).
EnterAll(ps) == [i \in 1..Len(ps) |-> Enter(ps[i])]

\* SettledResults that keeps the fulfilled promises only.
SettledResultsFulfilledOnly ==
    LET all == [i \in 1..Len(pids) |-> ToKillResult(task[i], pids[i])]
        idx == SelectSeq([i \in 1..Len(pids) |-> i],
                         LAMBDA i : task[i].pc = "done")
    IN  [j \in 1..Len(idx) |-> all[idx[j]]]

\* Lines 215-225: the KillResult list, by index.
SettledResults == [i \in 1..Len(pids) |-> ToKillResult(task[i], pids[i])]

\* Lines 202-212: the argument check, then pids.map(...) enters every
\* killByPid in list order, each up to its first await.
KillByPids ==
    /\ batch.api = "killByPids"
    /\ batch.state = "idle"
    /\ IF pids = <<>>
       THEN /\ batch' = [batch EXCEPT !.state = "thrown",
                                        !.error = "InvalidInput"]
            /\ UNCHANGED task
       ELSE /\ batch' = [batch EXCEPT !.state = "waiting"]
            /\ task' = EnterAll(pids)
    /\ UNCHANGED <<opts, isWindows, procTree, alive, pids, cacheVars, portVars>>

\* Lines 210-234: Promise.allSettled resolves once every kill has settled;
\* the results are mapped by index.
BatchSettle ==
    /\ batch.state = "waiting"
    /\ \A i \in 1..Len(pids) : task[i].pc \in {"done", "thrown"}
    /\ batch' = [batch EXCEPT !.state = "returned", !.results = SettledResults]
    /\ UNCHANGED <<opts, isWindows, procTree, alive, pids, task, cacheVars, portVars>>

\* ---------------------------------------------------------------- cache
Keys == {"port:1", "port:2"}
\* The ttlMs arguments used, in clock ticks.
Ttls == {1, 2}
\* The callers of getCached; their calls may overlap.
Callers == {1, 2}

\* The data of the cache are lists (of PIDs, ports or snapshots).
NoEntry == [data |-> <<>>, timestamp |-> -1]
IdleCall == [pc |-> "idle", key |-> "port:1", started |-> -1,
             hit |-> FALSE, data |-> <<>>]

\* IsFresh with `<=` for the `<` of line 70.
IsFreshInclusive(entry, t, ttlMs) ==
    entry # NoEntry /\ (t - entry.timestamp) <= ttlMs

\* IsFresh without the age test of line 70.
IsFreshNoExpiry(entry, t, ttlMs) == entry # NoEntry

\* cache.ts 70: the entry exists and has not expired.
IsFresh(entry, t, ttlMs) == entry # NoEntry /\ (t - entry.timestamp) < ttlMs

\* cache.ts 80: the entry written when the fetch of call c has resolved.
StoredEntry(c, data) == [data |-> data, timestamp |-> c.started]

\* cache.ts 66-77: getCached is entered; a hit returns, a miss calls the
\* fetcher and awaits it.
GetCached(c, k, ttlMs) ==
    /\ calls[c].pc # "fetching"
    /\ LET h == IsFresh(cache[k], now, ttlMs)
       IN  calls' = [calls EXCEPT ![c] =
                [pc |-> IF h THEN "returned" ELSE "fetching",
                 key |-> k, started |-> now, hit |-> h,
                 data |-> IF h THEN cache[k].data ELSE <<>>]]
    /\ hist' = [hist EXCEPT !.cleared = @ \ {k}]
    /\ UNCHANGED <<killVars, portVars, cache, now>>

\* cache.ts 77-82: the fetcher resolves (its data is the snapshot taken
\* now); the entry is stored and the data returned.
FetchResolved(c) ==
    /\ calls[c].pc = "fetching"
    /\ cache' = [cache EXCEPT ![calls[c].key] = StoredEntry(calls[c], <<now>>)]
    /\ calls' = [calls EXCEPT ![c].pc = "returned", ![c].data = <<now>>]
    /\ hist' = [hist EXCEPT !.lastFetch[calls[c].key] = calls[c].started]
    /\ UNCHANGED <<killVars, portVars, now>>

\* FetchRejected that drops the entry of the key when the fetcher rejects.
FetchRejectedDropsEntry(c) ==
    /\ calls[c].pc = "fetching"
    /\ calls' = [calls EXCEPT ![c].pc = "thrown"]
    /\ cache' = [cache EXCEPT ![calls[c].key] = NoEntry]
    /\ UNCHANGED <<killVars, portVars, now, hist>>

\* cache.ts 77: the fetcher rejects; getCached rejects and stores nothing.
FetchRejected(c) ==
    /\ calls[c].pc = "fetching"
    /\ calls' = [calls EXCEPT ![c].pc = "thrown"]
    /\ UNCHANGED <<killVars, portVars, cache, now, hist>>

\* cache.ts 107-111
ClearCache ==
    /\ cache' = [k \in Keys |-> NoEntry]
    /\ hist' = [hist EXCEPT !.cleared = Keys]
    /\ UNCHANGED <<killVars, portVars, now, calls>>

\* cache.ts 155-161.  Deleting an absent key changes nothing.
InvalidateCache(k) ==
    /\ cache[k] # NoEntry
    /\ cache' = [cache EXCEPT ![k] = NoEntry]
    /\ UNCHANGED <<killVars, portVars, now, calls, hist>>

\* Time passes.
Tick ==
    /\ now < MaxTime
    /\ now' = now + 1
    /\ UNCHANGED <<killVars, portVars, cache, calls, hist>>

\* ------------------------------------------ lookup and port entry points
\* lookup.ts 551, kill.ts 351: the largest port number.
MaxPort == 65535
\* cache.ts 31: the ttl findPidsByPort leaves to getCached, in ms.
DEFAULT_CACHE_TTL_MS == 1000

\* The ports the runs look up: 1..MaxRange and the largest port.
ModelPorts == (1..MaxRange) \cup {MaxPort}

\* lookup.ts 551.  Ports in lists are integers; 0 and MaxPort + 1 stand
\* for every argument the test rejects.
ValidPort(port) == ~(port < 1 \/ port > MaxPort)

\* lookup.ts 556: the cache key of a port.
PortKey(port) == "port:" \o ToString(port)
PortKeys == {PortKey(p) : p \in ModelPorts}

RECURSIVE Orderings(_)
\* The lines of `lsof -t` / `netstat` for a set of PIDs, in any order.
Orderings(S) ==
    IF S = {} THEN {<<>>}
    ELSE UNION {{<<x>> \o q : q \in Orderings(S \ {x})} : x \in S}

\* execText of the lookup command of a port: the live processes bound to
\* it, a CommandExecutionError (lsof exits 1 when it finds nothing), or a
\* TimeoutError.
PortLookupOutcomes(port) ==
    {[kind |-> "ok", out |-> q] : q \in Orderings(listeners[port] \cap alive)}
        \cup {[kind |-> "fail", out |-> <<>>]}
        \cup (IF opts.timeoutMs = NoDeadline THEN {}
              ELSE {[kind |-> "timeout", out |-> <<>>]})

\* Unique that keeps repeated PIDs.
UniqueKeepAll(q) == q

RECURSIVE Unique(_)
\* `new Set` filled in list order and spread again (lookup.ts 567-590,
\* kill.ts 294-317): the first occurrence of each PID, in insertion order.
Unique(q) ==
    IF q = <<>> THEN <<>>
    ELSE LET front == Unique(SubSeq(q, 1, Len(q) - 1))
         IN  IF q[Len(q)] \in Range(front) THEN front
             ELSE Append(front, q[Len(q)])

\* lookup.ts 549-556 with cache.ts 66-77: the port is validated, a fresh
\* cache entry is returned, otherwise the lookup command is issued.
\* `outcome` and `out` record how the command answered, `sent` the
\* command issued.
FindEnter(port) ==
    LET f0 == [pc |-> "start", port |-> port, started |-> now,
               outcome |-> "none", out |-> <<>>, pids |-> <<>>,
               error |-> "none", sent |-> <<>>]
    IN  IF ~ValidPort(port)
        THEN [f0 EXCEPT !.pc = "thrown", !.error = "InvalidInput"]
        ELSE IF IsFresh(cache[PortKey(port)], now, DEFAULT_CACHE_TTL_MS)
        THEN [f0 EXCEPT !.pc = "done", !.outcome = "cached",
                        !.pids = cache[PortKey(port)].data]
        ELSE [f0 EXCEPT !.pc = "lookup",
                        !.sent = <<[cmd |-> "listeners", target |-> port,
                                    sig |-> "-",
                                    deadline |-> opts.timeoutMs]>>]

\* AfterLookup that rethrows a CommandExecutionError too.
AfterLookupRethrowAll(f, o) ==
    IF o.kind # "ok"
    THEN [f EXCEPT !.pc = "thrown", !.outcome = o.kind, !.out = o.out,
                   !.error = ErrorOf(o.kind)]
    ELSE [f EXCEPT !.pc = "done", !.outcome = o.kind, !.out = o.out,
                   !.pids = Unique(o.out)]

\* lookup.ts 557-598: the answer of the lookup command is parsed; a
\* CommandExecutionError is an empty list, any other error is rethrown.
AfterLookup(f, o) ==
    IF o.kind = "timeout"
    THEN [f EXCEPT !.pc = "thrown", !.outcome = o.kind, !.out = o.out,
                   !.error = ErrorOf(o.kind)]
    ELSE [f EXCEPT !.pc = "done", !.outcome = o.kind, !.out = o.out,
                   !.pids = IF o.kind = "ok" THEN Unique(o.out) ELSE <<>>]

\* lookup.ts 558-599 with cache.ts 77-82: the lookup command of
\* finds[i] answers; a list that is returned is cached first.
FindDone(i) ==
    /\ finds[i].pc = "lookup"
    /\ \E o \in PortLookupOutcomes(finds[i].port) :
         LET f == AfterLookup(finds[i], o)
         IN  /\ finds' = [finds EXCEPT ![i] = f]
             /\ cache' = IF f.pc = "done"
                         THEN [cache EXCEPT ![PortKey(f.port)] =
                                  StoredEntry(finds[i], f.pids)]
                         ELSE cache
    /\ UNCHANGED <<killVars, now, calls, hist, listeners, ports>>

\* throw new <err>
Throw(err) == batch' = [batch EXCEPT !.state = "thrown", !.error = err]

\* kill.ts 298-300 (and 259): ps.map(port => findPidsByPort(port)) enters
\* every lookup in list order, each up to its first await.
StartFinds(ps) ==
    /\ finds' = [i \in 1..Len(ps) |-> FindEnter(ps[i])]
    /\ batch' = [batch EXCEPT !.state = "finding"]

\* kill.ts 257-259: killByPort(port, options) is called.
KillByPort ==
    /\ batch.api = "killByPort"
    /\ batch.state = "idle"
    /\ StartFinds(ports)
    /\ UNCHANGED <<opts, isWindows, procTree, alive, pids, task, cacheVars,
                   listeners, ports>>

\* kill.ts 259-261 with lookup.ts 623-629: the lookup has settled; the
\* first PID of a non-empty list goes to killByPid.
PortFound ==
    /\ batch.api = "killByPort"
    /\ batch.state = "finding"
    /\ finds[1].pc \in {"done", "thrown"}
    /\ IF finds[1].pc = "thrown"
       THEN Throw(finds[1].error) /\ UNCHANGED <<pids, task>>
       ELSE IF Len(finds[1].pids) = 0
       THEN Throw("ProcessNotFound") /\ UNCHANGED <<pids, task>>
       ELSE /\ pids' = <<finds[1].pids[1]>>
            /\ task' = <<Enter(finds[1].pids[1])>>
            /\ batch' = [batch EXCEPT !.state = "killing"]
    /\ UNCHANGED <<opts, isWindows, procTree, alive, cacheVars, portVars>>

\* KillByPortReturn that drops the cache entry of the port.
KillByPortReturnInvalidate ==
    /\ batch.state = "killing"
    /\ task[1].pc \in {"done", "thrown"}
    /\ IF task[1].pc = "done"
       THEN batch' = [batch EXCEPT !.state = "returned",
                                   !.results = <<task[1].result>>]
       ELSE Throw(task[1].lastError)
    /\ cache' = [cache EXCEPT ![PortKey(ports[1])] = NoEntry]
    /\ UNCHANGED <<opts, isWindows, procTree, alive, pids, task, now, calls,
                   hist, portVars>>

\* kill.ts 261: killByPid has settled; its result (or its error) is the
\* outcome of killByPort.
KillByPortReturn ==
    /\ batch.state = "killing"
    /\ task[1].pc \in {"done", "thrown"}
    /\ IF task[1].pc = "done"
       THEN batch' = [batch EXCEPT !.state = "returned",
                                   !.results = <<task[1].result>>]
       ELSE Throw(task[1].lastError)
    /\ UNCHANGED <<opts, isWindows, procTree, alive, pids, task, cacheVars, portVars>>

\* KillByPorts without the test of line 288.
KillByPortsNoCheck ==
    /\ batch.api = "killByPorts"
    /\ batch.state = "idle"
    /\ StartFinds(ports)
    /\ UNCHANGED <<opts, isWindows, procTree, alive, pids, task, cacheVars,
                   listeners, ports>>

\* kill.ts 287-300: killByPorts(ports, options) is called.
KillByPorts ==
    /\ batch.api = "killByPorts"
    /\ batch.state = "idle"
    /\ IF ports = <<>>
       THEN Throw("InvalidInput") /\ UNCHANGED finds
       ELSE StartFinds(ports)
    /\ UNCHANGED <<opts, isWindows, procTree, alive, pids, task, cacheVars,
                   listeners, ports>>

RECURSIVE FoundPids(_)
\* kill.ts 302-308: the PIDs of the fulfilled lookups, in list order.
FoundPids(fs) ==
    IF fs = <<>> THEN <<>>
    ELSE (IF Head(fs).pc = "done" THEN Head(fs).pids ELSE <<>>)
            \o FoundPids(Tail(fs))

\* kill.ts 302-317 with 202-212: every lookup has settled; the union of
\* the PIDs found goes to killByPids, which enters every killByPid.
PortsFound ==
    /\ batch.api \in {"killByPorts", "killByPortRange"}
    /\ batch.state = "finding"
    /\ \A i \in 1..Len(finds) : finds[i].pc \in {"done", "thrown"}
    /\ LET unique == Unique(FoundPids(finds))
       IN  IF Len(unique) = 0
           THEN Throw("ProcessNotFound") /\ UNCHANGED <<pids, task>>
           ELSE /\ pids' = unique
                /\ task' = EnterAll(unique)
                /\ batch' = [batch EXCEPT !.state = "waiting"]
    /\ UNCHANGED <<opts, isWindows, procTree, alive, cacheVars, portVars>>

\* A number argument: the integer n, or n + 1/2 when frac.
Num(n) == [n |-> n, frac |-> FALSE]
Half(n) == [n |-> n, frac |-> TRUE]
IsInteger(x) == ~x.frac

\* kill.ts 345-353: the three tests of the range.
ValidRange(start, end) ==
    /\ ~(~IsInteger(start) \/ ~IsInteger(end))
    /\ ~(end.n < start.n)
    /\ ~(start.n < 1 \/ end.n > MaxPort)

\* PortRange that leaves out the last port.
PortRangeExclusive(p, end) == [i \in 1..(end - p) |-> p + i - 1]

RECURSIVE PortRange(_, _)
\* kill.ts 356-357: for (let p = start; p <= end; p++) ports.push(p).
PortRange(p, end) ==
    IF p <= end THEN <<p>> \o PortRange(p + 1, end) ELSE <<>>

\* kill.ts 343-360 with 287-300: killByPortRange(start, end, options) is
\* called; a valid range is expanded and handed to killByPorts.
KillByPortRange ==
    /\ batch.api = "killByPortRange"
    /\ batch.state = "idle"
    /\ IF ~ValidRange(batch.start, batch.end)
       THEN Throw("InvalidInput") /\ UNCHANGED <<ports, finds>>
       ELSE LET ps == PortRange(batch.start.n, batch.end.n)
            IN  /\ ports' = ps
                /\ IF ps = <<>>
                   THEN Throw("InvalidInput") /\ UNCHANGED finds
                   ELSE StartFinds(ps)
    /\ UNCHANGED <<opts, isWindows, procTree, alive, pids, task, cacheVars, listeners>>

\* lookup.ts 549-556 with cache.ts 66-77: findPidsByPort(port) is called
\* once more after killByPort(port) has returned.
FindAgain ==
    /\ batch.api = "killByPort"
    /\ batch.state = "returned"
    /\ Len(finds) = 1
    /\ finds' = Append(finds, FindEnter(ports[1]))
    /\ UNCHANGED <<killVars, cacheVars, listeners, ports>>

\* ------------------------------------------------------------ killByName
\* lookup.ts 684: the cache key of the name lookup (pattern "node", no
\* regular expression).
NameKey == "name:node:false"

\* execText of `ps -A -o pid=,comm=,args=`, filtered by the matcher
\* (lookup.ts 698-717): the live processes that match, in the order ps
\* lists them, a CommandExecutionError, or a TimeoutError when a deadline
\* was given.
NameLookupOutcomes ==
    {[kind |-> "ok", out |-> SetToSeq(S)] : S \in SUBSET alive}
        \cup {[kind |-> "fail", out |-> <<>>]}
        \cup (IF opts.timeoutMs = NoDeadline THEN {}
              ELSE {[kind |-> "timeout", out |-> <<>>]})

\* kill.ts 395: `const { timeoutMs, ...rest } = opts`.
Rest(o) == [o EXCEPT !.timeoutMs = NoDeadline]

\* kill.ts 391-402 with lookup.ts 664-698 and cache.ts 66-77:
\* killByName(pattern, opts) is called; findPidsByName validates the
\* pattern, returns a fresh cache entry, or issues the process listing with
\* the deadline timeoutMs.
KillByName ==
    /\ batch.api = "killByName"
    /\ batch.state = "idle"
    /\ LET f0 == [pc |-> "start", port |-> 0, started |-> now,
                  outcome |-> "none", out |-> <<>>, pids |-> <<>>,
                  error |-> "none", sent |-> <<>>]
       IN  finds' = <<IF batch.pattern = ""
                      THEN [f0 EXCEPT !.pc = "thrown",
                                      !.error = "InvalidInput"]
                      ELSE IF IsFresh(cache[NameKey], now, DEFAULT_CACHE_TTL_MS)
                      THEN [f0 EXCEPT !.pc = "done", !.outcome = "cached",
                                      !.pids = cache[NameKey].data]
                      ELSE [f0 EXCEPT !.pc = "lookup",
                                      !.sent = <<[cmd |-> "processes",
                                                  target |-> 0, sig |-> "-",
                                                  deadline |-> opts.timeoutMs]>>]>>
    /\ batch' = [batch EXCEPT !.state = "finding"]
    /\ UNCHANGED <<opts, isWindows, procTree, alive, pids, task, cacheVars,
                   listeners, ports>>

\* lookup.ts 685-724 with cache.ts 77-82: the process listing answers.  A
\* list is cached and returned; a CommandExecutionError becomes a
\* ProcessNotFoundError, any other error is rethrown, and nothing is cached.
NameLookupDone ==
    /\ batch.api = "killByName"
    /\ batch.state = "finding"
    /\ finds[1].pc = "lookup"
    /\ \E o \in NameLookupOutcomes :
         IF o.kind = "ok"
         THEN /\ finds' = [finds EXCEPT ![1].pc = "done", ![1].outcome = "ok",
                                         ![1].out = o.out, ![1].pids = o.out]
              /\ cache' = [cache EXCEPT ![NameKey] =
                                            StoredEntry(finds[1], o.out)]
         ELSE /\ finds' = [finds EXCEPT
                             ![1].pc = "thrown", ![1].outcome = o.kind,
                             ![1].error = IF o.kind = "fail"
                                          THEN "ProcessNotFound" ELSE "Timeout"]
              /\ UNCHANGED cache
    /\ UNCHANGED <<killVars, now, calls, hist, listeners, ports>>

\* kill.ts 398-409: findPidsByName has settled.  An empty list is a
\* ProcessNotFoundError; otherwise killByPids(pids, rest) enters every
\* killByPid with the options left after timeoutMs was taken out.
NamesFound ==
    /\ batch.api = "killByName"
    /\ batch.state = "finding"
    /\ finds[1].pc \in {"done", "thrown"}
    /\ IF finds[1].pc = "thrown"
       THEN Throw(finds[1].error) /\ UNCHANGED <<opts, pids, task>>
       ELSE IF Len(finds[1].pids) = 0
       THEN Throw("ProcessNotFound") /\ UNCHANGED <<opts, pids, task>>
       ELSE /\ opts' = Rest(opts)
            /\ pids' = finds[1].pids
            /\ task' = EnterAll(pids)'
            /\ batch' = [batch EXCEPT !.state = "waiting"]
    /\ UNCHANGED <<isWindows, procTree, alive, cacheVars, portVars>>

\* ------------------------------------------------------- specifications
KillOptions ==
    [signal : Signals, dryRun : BOOLEAN, tree : BOOLEAN,
     forceAfterTimeout : BOOLEAN, verify : BOOLEAN, retries : 0..MaxRetries,
     timeoutMs : Timeouts]

\* The options of the batch runs: the per-target kill without tree, retry
\* or escalation.
BatchOptions ==
    [signal : {"SIGTERM"}, dryRun : BOOLEAN, tree : {FALSE},
     forceAfterTimeout : {FALSE}, verify : BOOLEAN, retries : {0},
     timeoutMs : Timeouts]

\* The list elements of the batch runs: an invalid PID and two targets.
BatchPids == {0, 1, 2}

\* PID lists of length 0..n over S.
RECURSIVE ListsUpTo(_, _)
ListsUpTo(S, n) ==
    IF n = 0 THEN {<<>>}
    ELSE LET shorter == ListsUpTo(S, n - 1)
         IN  shorter \cup {Append(l, p) : l \in shorter, p \in S}

CacheUnused ==
    /\ cache = [k \in Keys |-> NoEntry]
    /\ now = 0
    /\ calls = [c \in Callers |-> IdleCall]
    /\ hist = [cleared |-> {}, lastFetch |-> [k \in Keys |-> -1]]

KillUnused ==
    /\ opts = [signal |-> "SIGTERM", dryRun |-> FALSE, tree |-> FALSE,
               forceAfterTimeout |-> FALSE, verify |-> FALSE, retries |-> 0,
               timeoutMs |-> NoDeadline]
    /\ isWindows = FALSE
    /\ alive = Pids
    /\ procTree = <<>>
    /\ pids = <<>>
    /\ task = <<>>
    /\ batch = [api |-> "none"]

PortsUnused ==
    /\ listeners = <<>>
    /\ ports = <<>>
    /\ finds = <<>>

\* One killByPid call, every option setting, both platforms.
Init ==
    /\ opts \in KillOptions
    /\ isWindows \in BOOLEAN
    /\ alive \in {Pids, Pids \ {1}}
    /\ procTree = <<>>
    /\ pids \in {<<p>> : p \in BadPids \cup {1}}
    /\ task = <<IdleTask>>
    /\ batch = [api |-> "killByPid"]
    /\ CacheUnused
    /\ PortsUnused

Next == KillByPid \/ KillStep(1)

Spec == Init /\ [][Next]_vars

\* One killByPids call on a list of valid and invalid PIDs, repeats allowed.
InitBatch ==
    /\ opts \in BatchOptions
    /\ isWindows = FALSE
    /\ alive \in {Pids, Pids \ {1}}
    /\ procTree = <<>>
    /\ pids \in ListsUpTo(BatchPids, MaxBatch)
    /\ task = <<>>
    /\ batch = [api |-> "killByPids", state |-> "idle", results |-> <<>>,
                error |-> "none"]
    /\ CacheUnused
    /\ PortsUnused

NextBatch ==
    \/ KillByPids
    \/ \E t \in 1..Len(task) :
         \/ PreCheckDone(t)
         \/ SendRootDone(t)
         \/ VerifySleepDone(t)
         \/ VerifyProbeDone(t)
    \/ BatchSettle

SpecBatch == InitBatch /\ [][NextBatch]_vars

\* The cache under overlapping lookups, clearCache and invalidateCache.
InitCache ==
    /\ KillUnused
    /\ CacheUnused
    /\ PortsUnused

CacheStep ==
    \/ \E c \in Callers : FetchResolved(c) \/ FetchRejected(c)
    \/ Tick

NextCache ==
    \/ \E c \in Callers, k \in Keys, ttlMs \in Ttls : GetCached(c, k, ttlMs)
    \/ CacheStep
    \/ ClearCache
    \/ \E k \in Keys : InvalidateCache(k)

SpecCache == InitCache /\ [][NextCache]_vars

\* The cache under repeated, non-overlapping lookups: a call is made only
\* when no other call is awaiting its fetcher.
NextCacheSeq ==
    \/ \E c \in Callers, k \in Keys, ttlMs \in Ttls :
         /\ \A d \in Callers : calls[d].pc # "fetching"
         /\ GetCached(c, k, ttlMs)
    \/ CacheStep

SpecCacheSeq == InitCache /\ [][NextCacheSeq]_vars

\* The port tables of the runs: port 1 is free or held by PIDs 1 and 2,
\* port 2 is free or held by PIDs 2 and 3; no other port is held.
PortTables ==
    {[p \in ModelPorts |-> IF p = 1 THEN a ELSE IF p = 2 THEN b ELSE {}] :
        a \in {{}, {1, 2}}, b \in {{}, {2, 3}}}

\* The arguments of killByPortRange: every pair of bounds in 0..MaxRange,
\* the pairs at the largest port, and two pairs with a bound that is not
\* an integer.
RangeArgs ==
    {<<Num(a), Num(b)>> : a, b \in 0..MaxRange}
        \cup {<<Num(MaxPort), Num(MaxPort)>>, <<Num(MaxPort), Num(MaxPort + 1)>>,
              <<Half(1), Num(2)>>, <<Num(1), Half(2)>>}

\* The calls of the port runs: one entry point with its arguments.
PortCalls ==
    {[api |-> "killByPort", ports |-> <<p>>, pids |-> <<>>,
      start |-> Num(0), end |-> Num(0)] : p \in {0, 1, 2, MaxPort, MaxPort + 1}}
    \cup {[api |-> "killByPorts", ports |-> ps, pids |-> <<>>,
           start |-> Num(0), end |-> Num(0)] :
             ps \in ListsUpTo({0, 1, 2}, MaxPorts)}
    \cup {[api |-> "killByPortRange", ports |-> <<>>, pids |-> <<>>,
           start |-> r[1], end |-> r[2]] : r \in RangeArgs}
    \cup {[api |-> "killByPids", ports |-> <<>>, pids |-> ps,
           start |-> Num(0), end |-> Num(0)] : ps \in ListsUpTo(BatchPids, 1)}

\* One call of killByPort, killByPorts, killByPortRange or killByPids on
\* POSIX, every process alive, the cache empty or holding the answer of an
\* earlier lookup of port 1 at time 0.
InitPorts ==
    /\ opts \in BatchOptions
    /\ isWindows = FALSE
    /\ alive = Pids
    /\ procTree = <<>>
    /\ listeners \in PortTables
    /\ \E c \in PortCalls :
         /\ batch = [api |-> c.api, state |-> "idle", results |-> <<>>,
                     error |-> "none", start |-> c.start, end |-> c.end]
         /\ ports = c.ports
         /\ pids = c.pids
    /\ task = <<>>
    /\ finds = <<>>
    /\ \E cached \in BOOLEAN :
         cache = [k \in PortKeys |-> IF cached /\ k = PortKey(1)
                                     THEN [data |-> <<3>>, timestamp |-> 0]
                                     ELSE NoEntry]
    /\ now = 0
    /\ calls = [c \in Callers |-> IdleCall]
    /\ hist = [cleared |-> {}, lastFetch |-> [k \in Keys |-> -1]]

NextPorts ==
    \/ KillByPort
    \/ KillByPorts
    \/ KillByPortRange
    \/ KillByPids
    \/ \E i \in 1..Len(finds) : FindDone(i)
    \/ PortFound
    \/ PortsFound
    \/ \E t \in 1..Len(task) :
         \/ PreCheckDone(t)
         \/ SendRootDone(t)
         \/ VerifySleepDone(t)
         \/ VerifyProbeDone(t)
    \/ BatchSettle
    \/ KillByPortReturn
    \/ FindAgain

SpecPorts == InitPorts /\ [][NextPorts]_vars

\* The processes of the tree runs: the target 1 and three more.
TreePids == {1, 2, 3, 4}

RECURSIVE BelowRoot(_, _, _)
\* Following the parents of p leads to the target or out of TreePids (0)
\* within n steps.
BelowRoot(par, p, n) ==
    IF p \in {0, 1} THEN TRUE
    ELSE IF n = 0 THEN FALSE
    ELSE BelowRoot(par, par[p], n - 1)

\* The well-formed process trees: every process but the target has one
\* parent, among the others or outside, and none is its own ancestor.  The
\* value is the child list of each process, as `ps --ppid` prints it.
ProcessTrees ==
    LET Parents == {par \in [TreePids \ {1} -> TreePids \cup {0}] :
                       \A p \in TreePids \ {1} :
                           BelowRoot(par, p, Cardinality(TreePids))}
    IN  {[p \in TreePids |-> SetToSeq({c \in TreePids \ {1} : par[c] = p})] :
            par \in Parents}

\* The options of the tree runs: tree:true without escalation and
\* verification, at most one retry.
TreeOptions ==
    [signal : {"SIGTERM"}, dryRun : {FALSE}, tree : {TRUE},
     forceAfterTimeout : {FALSE}, verify : {FALSE}, retries : {0, 1},
     timeoutMs : Timeouts]

\* One killByPid call with tree:true on POSIX over a well-formed process
\* tree.
InitTree ==
    /\ opts \in TreeOptions
    /\ isWindows = FALSE
    /\ alive = TreePids
    /\ procTree \in ProcessTrees
    /\ pids = <<1>>
    /\ task = <<IdleTask>>
    /\ batch = [api |-> "killByPid"]
    /\ CacheUnused
    /\ PortsUnused

NextTree ==
    \/ KillByPid
    \/ PreCheckDone(1)
    \/ LookupDone(1)
    \/ SendChildDone(1)
    \/ SendRootDone(1)
    \/ RetrySleepDone(1)

SpecTree == InitTree /\ [][NextTree]_vars

\* One killByName call on POSIX, every process alive, with an empty or a
\* valid pattern, the cache empty or holding the answer of an earlier
\* lookup of the same pattern at time 0.
InitName ==
    /\ opts \in BatchOptions
    /\ isWindows = FALSE
    /\ alive = Pids
    /\ procTree = <<>>
    /\ \E pattern \in {"", "node"} :
         batch = [api |-> "killByName", state |-> "idle", results |-> <<>>,
                  error |-> "none", pattern |-> pattern,
                  timeoutMs |-> opts.timeoutMs]
    /\ pids = <<>>
    /\ task = <<>>
    /\ PortsUnused
    /\ \E cached \in BOOLEAN :
         cache = [k \in {NameKey} |-> IF cached
                                      THEN [data |-> <<2>>, timestamp |-> 0]
                                      ELSE NoEntry]
    /\ now = 0
    /\ calls = [c \in Callers |-> IdleCall]
    /\ hist = [cleared |-> {}, lastFetch |-> [k \in Keys |-> -1]]

NextName ==
    \/ KillByName
    \/ NameLookupDone
    \/ NamesFound
    \/ \E t \in 1..Len(task) :
         \/ PreCheckDone(t)
         \/ SendRootDone(t)
         \/ VerifySleepDone(t)
         \/ VerifyProbeDone(t)
    \/ BatchSettle

SpecName == InitName /\ [][NextName]_vars

\* A killByPids call whose per-target kills run the whole retry loop, under
\* the scheduling the runtime provides: every awaited subprocess completes
\* or times out, every delay elapses, and a settled Promise.allSettled
\* resumes its caller.
LiveOptions ==
    [signal : {"SIGTERM"}, dryRun : {FALSE}, tree : BOOLEAN,
     forceAfterTimeout : BOOLEAN, verify : BOOLEAN, retries : 0..MaxRetries,
     timeoutMs : Timeouts]

\* The target lists of the fair runs: one target, a target after an invalid
\* PID, and a target next to a process that has already exited (PID 3).
LivePidLists == {<<1>>, <<0, 1>>, <<1, 3>>}

\* The process tables of the fair runs: a chain, and a table whose probe
\* reports a cycle between 1 and 2.
LiveTrees ==
    {[p \in Pids |-> IF p = 1 THEN <<2>> ELSE IF p = 2 THEN <<3>> ELSE <<>>],
     [p \in Pids |-> IF p = 1 THEN <<2>> ELSE IF p = 2 THEN <<1>> ELSE <<>>]}

InitLive ==
    /\ opts \in LiveOptions
    /\ isWindows = FALSE
    /\ alive = Pids \ {3}
    /\ procTree \in LiveTrees
    /\ pids \in LivePidLists
    /\ task = <<>>
    /\ batch = [api |-> "killByPids", state |-> "idle", results |-> <<>>,
                error |-> "none"]
    /\ CacheUnused
    /\ PortsUnused

\* The next step of the kill of the t-th target, once it has been started.
LiveStep(t) == t \in DOMAIN task /\ KillStep(t)

NextLive ==
    \/ KillByPids
    \/ \E t \in 1..Len(task) : KillStep(t)
    \/ BatchSettle

SpecLive ==
    /\ InitLive
    /\ [][NextLive]_vars
    /\ WF_vars(KillByPids)
    /\ \A t \in 1..2 : WF_vars(LiveStep(t))
    /\ WF_vars(BatchSettle)

\* ------------------------------------------------------------ properties
\* The killByPid invocations that have been entered.
Entered == {t \in DOMAIN task : task[t].pc # "idle"}

\* The targets of the termination commands of a command log, in order.
KillTargets(log) ==
    LET kills == SelectSeq(log, LAMBDA c : c.cmd = "kill")
    IN  [i \in 1..Len(kills) |-> kills[i].target]

IsPrefix(a, b) == Len(a) <= Len(b) /\ a = SubSeq(b, 1, Len(a))

NoDuplicates(q) == \A i, j \in 1..Len(q) : q[i] = q[j] => i = j

\* C1: a dry run of a valid PID issues no OS command at all (no probe, no
\* lookup, no termination) and returns {pid, success:true, signal} with
\* the configured signal, whatever the other options are.
C1_DryRunTouchesNothing ==
    \A t \in Entered :
        (opts.dryRun /\ task[t].pid \in Pids) =>
            /\ task[t].pc = "done"
            /\ task[t].result =
                 [pid |-> task[t].pid, success |-> TRUE, signal |-> opts.signal]
            /\ task[t].sent = <<>>
            /\ task[t].rootSends = 0
            /\ task[t].escalations = 0

C1_Witness ==
    /\ task[1].pc = "done"
    /\ opts.dryRun /\ opts.tree /\ opts.verify /\ opts.forceAfterTimeout
    /\ opts.retries = MaxRetries
    /\ task[1].result.success

\* C2: when the pre-check probe answers "not alive", the call returns
\* {pid, success:true, verified:true} and its only OS command is that probe:
\* no termination command for the root or a descendant, for every setting
\* of tree, retries, verify and forceAfterTimeout.
C2_AlreadyDeadShortCircuit ==
    \A t \in Entered :
        task[t].exists = "no" =>
            /\ task[t].pc = "done"
            /\ task[t].result =
                 [pid |-> task[t].pid, success |-> TRUE, verified |-> TRUE]
            /\ task[t].sent = <<ProbeCmd(task[t].pid)>>
            /\ task[t].rootSends = 0
            /\ task[t].escalations = 0

C2_Witness ==
    /\ task[1].pc = "done"
    /\ task[1].exists = "no"
    /\ opts.tree /\ opts.verify /\ opts.forceAfterTimeout
    /\ opts.retries = MaxRetries
    /\ 1 \in alive

\* C3: a call makes at most retries + 1 attempts on the root PID, and a
\* call that ends in failure (every attempt failed) has made exactly
\* retries + 1.
C3_AttemptsBounded ==
    \A t \in Entered :
        /\ task[t].rootSends <= opts.retries + 1
        /\ (task[t].pc = "done" /\ ~task[t].result.success)
              => task[t].rootSends = opts.retries + 1

C3_Witness ==
    /\ task[1].pc = "done"
    /\ ~task[1].result.success
    /\ opts.retries = MaxRetries
    /\ task[1].rootSends = MaxRetries + 1
    /\ task[1].lastError = "StillAlive"

\* C4: the escalation resend (`kill -9` to the root) is issued at most once
\* in a call, never without forceAfterTimeout, and only right after the
\* probe that follows the escalation delay has answered "alive".
C4_EscalatesAtMostOnce ==
    \A t \in Entered :
        LET r == task[t]
            n == Len(r.sent)
            resends == SelectSeq(r.sent, LAMBDA c : c.sig = "-9")
        IN  /\ r.escalations <= 1
            /\ ~opts.forceAfterTimeout => r.escalations = 0
            /\ Len(resends) <= r.escalations
            /\ Len(resends) = 1 => r.stillAlive = "yes"
            /\ r.pc = "escSend" =>
                 /\ r.stillAlive = "yes"
                 /\ n >= 2
                 /\ r.sent[n] = [cmd |-> "kill", target |-> r.pid, sig |-> "-9",
                                 deadline |-> opts.timeoutMs]
                 /\ r.sent[n - 1] = ProbeCmd(r.pid)

C4_Witness ==
    /\ task[1].pc = "sendRoot"
    /\ task[1].escalations = 1
    /\ task[1].attempt >= 1
    /\ opts.forceAfterTimeout
    /\ opts.signal # "SIGKILL"

\* C5: killByPids on a non-empty list of n PIDs never throws and returns n
\* results with results[i].pid = pids[i], whichever kills succeed, fail or
\* throw and in whatever order they complete.
C5_ResultsAligned ==
    /\ pids # <<>> => batch.state # "thrown"
    /\ batch.state = "returned" =>
         /\ Len(batch.results) = Len(pids)
         /\ \A i \in 1..Len(pids) : batch.results[i].pid = pids[i]

C5_Witness ==
    /\ batch.state = "returned"
    /\ Len(pids) = MaxBatch
    /\ pids[1] \notin Pids
    /\ ~batch.results[2].success
    /\ batch.results[MaxBatch].success
    /\ pids[2] # pids[MaxBatch]

\* C6: a per-target kill that throws or fails does not abort the batch:
\* every target is still entered, the batch settles as soon as all kills
\* have settled, a thrown kill becomes {pid, success:false, error} and a
\* failed one keeps its own failure result.
C6_FailureIsolated ==
    /\ pids # <<>> => batch.state # "thrown"
    /\ batch.state \in {"waiting", "returned"} =>
         \A i \in 1..Len(pids) :
            /\ task[i].pc # "idle"
            /\ (pids[i] \in Pids /\ ~opts.dryRun) => task[i].sent # <<>>
    /\ (batch.state = "waiting"
          /\ \A i \in 1..Len(pids) : task[i].pc \in {"done", "thrown"})
         => ENABLED BatchSettle
    /\ batch.state = "returned" =>
         \A i \in 1..Len(pids) :
            /\ task[i].pc = "thrown" =>
                 batch.results[i] = [pid |-> pids[i], success |-> FALSE,
                                     error |-> "InvalidInput"]
            /\ task[i].pc = "done" => batch.results[i] = task[i].result

C6_Witness ==
    /\ batch.state = "returned"
    /\ Len(pids) = MaxBatch
    /\ task[1].pc = "thrown"
    /\ task[2].pc = "done" /\ ~task[2].result.success
    /\ task[MaxBatch].pc = "done" /\ task[MaxBatch].result.success
    /\ task[MaxBatch].rootSends = 1

\* C7: the sequence findDescendantPids returns never contains the root,
\* and a traversal asks for the children of a PID at most once, whatever
\* the probe reports (cycles, the root as a child, a PID under two parents).
C7_RootExcludedNoRevisit ==
    \A t \in Entered :
        /\ task[t].pid \notin Range(task[t].descendants)
        /\ NoDuplicates(task[t].lookedUp)

C7_Witness ==
    /\ task[1].pc = "sendChild"
    /\ task[1].revisit
    /\ Len(task[1].lookedUp) = 3
    /\ ~NoDuplicates(task[1].bfsResult)

\* C8: on POSIX, within an attempt the termination commands go to the
\* resolved descendants in discovery order, one at a time (the next is
\* issued when the previous has answered), and only then to the root.
C8_DescendantsBeforeRoot ==
    \A t \in Entered :
        ~isWindows =>
            LET r == task[t]
                targets == KillTargets(r.sent)
            IN  /\ IsPrefix(targets, r.descendants \o <<r.pid, r.pid>>)
                /\ r.pc = "sendChild" => Len(targets) = r.childIdx
                /\ r.pc = "sendRoot" => Len(targets) = Len(r.descendants) + 1
                /\ r.pc = "lookup" => targets = <<>>

C8_Witness ==
    /\ task[1].pc = "sendRoot"
    /\ ~isWindows /\ opts.tree
    /\ task[1].attempt >= 1
    /\ Len(task[1].descendants) >= 2
    /\ KillTargets(task[1].sent) = task[1].descendants \o <<1>>

\* C9: for repeated (non-overlapping) getCached calls on a key, a call
\* made less than ttl after the start of the call whose fetch was last
\* stored is a hit (the fetcher is not invoked), and a call is a miss (the
\* fetcher is invoked) when no fetch was stored or ttl has elapsed.
C9_FetchOncePerTtl ==
    [][\A c \in Callers, k \in Keys, ttlMs \in Ttls :
          GetCached(c, k, ttlMs) =>
             (calls'[c].hit <=> (/\ hist.lastFetch[k] >= 0
                                 /\ now - hist.lastFetch[k] < ttlMs))]_vars

C9_Witness ==
    /\ calls[1].pc = "returned" /\ calls[1].hit
    /\ calls[1].started > hist.lastFetch[calls[1].key]
    /\ calls[2].pc = "fetching" /\ calls[2].key = calls[1].key
    /\ calls[2].started - hist.lastFetch[calls[2].key] = 2

\* C10: the first getCached call for a key after clearCache is a miss, in
\* every interleaving with other lookups.
C10_ClearForcesMiss ==
    [][\A c \in Callers, k \in Keys, ttlMs \in Ttls :
          (GetCached(c, k, ttlMs) /\ k \in hist.cleared) => ~calls'[c].hit]_vars

\* The entry points that start from ports.
PortApis == {"killByPort", "killByPorts", "killByPortRange"}

\* C11: killByPids([]) and killByPorts([]) fail with InvalidInput in their
\* first step, with no killByPid and no findPidsByPort entered (so no
\* probe, lookup or kill command), the cache and its callers untouched, and
\* nothing happens afterwards.
C11_EmptyListRejected ==
    [][/\ ((KillByPids /\ pids = <<>>) \/ (KillByPorts /\ ports = <<>>)) =>
            /\ batch'.state = "thrown"
            /\ batch'.error = "InvalidInput"
            /\ task' = <<>>
            /\ finds' = <<>>
            /\ UNCHANGED <<cacheVars, alive>>
       /\ (batch.state = "thrown" /\ batch.error = "InvalidInput"
             /\ batch.api \in {"killByPids", "killByPorts"}) =>
            UNCHANGED vars]_vars

C11_Witness ==
    /\ batch.api = "killByPorts"
    /\ ports = <<>>
    /\ batch.state = "thrown"
    /\ batch.error = "InvalidInput"
    /\ cache[PortKey(1)] # NoEntry
    /\ listeners[1] # {}

C13_RangeIsPortList ==
    (batch.api = "killByPortRange" /\ batch.state # "idle") =>
        LET s == batch.start
            e == batch.end
        IN  IF IsInteger(s) /\ IsInteger(e) /\ 1 <= s.n /\ s.n <= e.n
                /\ e.n <= MaxPort
            THEN /\ ports = [i \in 1..(e.n - s.n + 1) |-> s.n + i - 1]
                 /\ Len(finds) = Len(ports)
                 /\ \A i \in 1..Len(ports) : finds[i].port = ports[i]
                 /\ \A i \in 1..Len(ports) : finds[i].error # "InvalidInput"
                 /\ ~(batch.state = "thrown" /\ batch.error = "InvalidInput")
                 /\ batch.state \in {"waiting", "returned"} =>
                      Range(pids) = Range(FoundPids(finds))
            ELSE /\ batch.state = "thrown"
                 /\ batch.error = "InvalidInput"
                 /\ ports = <<>>
                 /\ finds = <<>>
                 /\ task = <<>>

C13_Witness ==
    /\ batch.api = "killByPortRange"
    /\ batch.state = "returned"
    /\ batch.start = Num(1)
    /\ batch.end = Num(MaxRange)
    /\ Len(pids) = 3

\* The `verified` flag of a KillResult (absent reads as not verified).
Verified(res) == "verified" \in DOMAIN res /\ res.verified

\* C14: a call returns a result with verified:true only if the process did
\* not exist when the liveness probe behind that verdict answered.
C14_VerifiedMeansGone ==
    [][\A t \in DOMAIN task :
          (task[t].pc \in {"precheck", "verifyProbe"} /\ task'[t].pc = "done"
             /\ Verified(task'[t].result)) => task[t].pid \notin alive]_vars

\* C15: when killByPort returns success:true, no live process is bound to
\* the port any more.
C15_SuccessMeansPortFree ==
    (batch.api = "killByPort" /\ batch.state = "returned"
        /\ batch.results[1].success) => listeners[ports[1]] \cap alive = {}

\* The arguments of the call pass every validation of the entry point.
ValidArguments ==
    CASE batch.api = "killByPids" ->
            pids # <<>> /\ \A i \in 1..Len(pids) : pids[i] \in Pids
      [] batch.api \in {"killByPort", "killByPorts"} ->
            ports # <<>> /\ \A i \in 1..Len(ports) : ValidPort(ports[i])
      [] batch.api = "killByPortRange" -> ValidRange(batch.start, batch.end)

\* C16: with dryRun:true and valid arguments, an entry point never throws
\* and never reports a failed result, whatever the port table, the process
\* table or the lookup command answer.
C16_DryRunNeverFails ==
    (opts.dryRun /\ ValidArguments) =>
        /\ batch.state # "thrown"
        /\ batch.state = "returned" =>
             \A i \in 1..Len(batch.results) : batch.results[i].success

\* The findPidsByPort invocations that have issued their lookup command.
Issued == {i \in 1..Len(finds) :
              finds[i].pc = "lookup" \/ finds[i].outcome \in {"ok", "fail", "timeout"}}

\* C17: a call of killByPort, killByPorts or killByPortRange that involves
\* a port outside [1,65535] issues no lookup and no kill command for any of
\* its inputs and fails with InvalidInput.
C17_InvalidInputSurfaced ==
    (batch.api \in PortApis /\ batch.state # "idle" /\ ~ValidArguments
        /\ ~(batch.api = "killByPorts" /\ ports = <<>>)) =>
        /\ Issued = {}
        /\ task = <<>>
        /\ batch.state \in {"finding", "thrown"}
        /\ batch.state = "thrown" => batch.error = "InvalidInput"

\* C18 as stated: with verify:true every success:true result carries
\* verified:true and follows a liveness probe issued after the termination
\* command of the same attempt.
C18_SuccessOnlyAfterVerification ==
    \A t \in Entered :
        (opts.verify /\ task[t].pc = "done" /\ task[t].result.success) =>
            /\ Verified(task[t].result)
            /\ task[t].rootSends >= 1
            /\ task[t].sent[Len(task[t].sent)] = ProbeCmd(task[t].pid)

\* C18 (amended): with verify:true, no dry run, and the pre-check probe
\* having reported the process alive, a success:true result is returned only
\* by the step in which the probe issued after the settle delay of the
\* current attempt answers "not alive", and it carries verified:true and the
\* effective signal; when that probe answers "alive" the attempt fails with
\* the still-alive error and is retried exactly while attempt < retries,
\* otherwise the failure result is returned.
C18_VerifiedSuccess ==
    [][\A t \in DOMAIN task :
          /\ (opts.verify /\ task[t].pc \notin {"idle", "done", "thrown"}
                /\ task'[t].pc = "done" /\ task'[t].result.success
                /\ task'[t].exists = "yes") =>
                /\ task[t].pc = "verifyProbe"
                /\ task[t].sent[Len(task[t].sent)] = ProbeCmd(task[t].pid)
                /\ task[t].rootSends = task[t].attempt + 1
                /\ task'[t].result =
                     [pid |-> task[t].pid, success |-> TRUE,
                      signal |-> task[t].usedSignal, verified |-> TRUE]
          /\ (task[t].pc = "verifyProbe"
                /\ ~(task'[t].pc = "done" /\ task'[t].result.success)) =>
                /\ task'[t].lastError = "StillAlive"
                /\ IF task[t].attempt < opts.retries
                   THEN task'[t].pc = "retrySleep"
                   ELSE /\ task'[t].pc = "done"
                        /\ task'[t].result.error = "StillAlive"
          /\ (task[t].pc = "verifySleep" /\ task'[t] # task[t]) =>
                /\ task'[t].pc = "verifyProbe"
                /\ task'[t].attempt = task[t].attempt]_vars

C18_Witness ==
    /\ task[1].pc = "done"
    /\ opts.verify
    /\ task[1].result.success
    /\ Verified(task[1].result)
    /\ task[1].attempt = MaxRetries
    /\ task[1].lastError = "StillAlive"
    /\ task[1].exists = "yes"

C22_NoEscalationFromKill ==
    \A t \in Entered :
        (opts.forceAfterTimeout /\ opts.signal \in {"SIGKILL", "9"}
            /\ task[t].pid \in Pids) =>
            /\ task[t].pc \notin {"escSleep", "escProbe", "escSend"}
            /\ task[t].escalations = 0

\* C23: the signal field of a successful result is the effective signal.
\* It is SIGKILL exactly when the configured signal is SIGKILL or an
\* escalation resend was issued during the call, and it is the configured
\* signal otherwise.  (The one successful result without a signal field is
\* that of the pre-check that found the process already gone.)
C23_EffectiveSignal ==
    \A t \in Entered :
        (task[t].pc = "done" /\ task[t].result.success) =>
            LET res == task[t].result
            IN  IF "signal" \in DOMAIN res
                THEN /\ (res.signal = "SIGKILL") <=>
                            (opts.signal = "SIGKILL" \/ task[t].escalations > 0)
                     /\ res.signal # "SIGKILL" => res.signal = opts.signal
                ELSE task[t].exists = "no" /\ task[t].rootSends = 0

C23_Witness ==
    /\ task[1].pc = "done"
    /\ task[1].result.success
    /\ opts.signal = "SIGTERM"
    /\ ~opts.verify
    /\ task[1].escalations > 0
    /\ task[1].result.signal = "SIGKILL"
    /\ task[1].attempt > 0

\* C24: with tree:true, whatever the signal to a descendant answers
\* (success, command error or timeout), the attempt goes on: the next
\* descendant in the list is signalled, and after the last one the root,
\* with the attempt number and the last error untouched.  Only the answer
\* of the root's own signal takes the attempt to the catch block.
C24_ChildFailureSwallowed ==
    [][\A t \in DOMAIN task :
          LET r == task[t]
              r2 == task'[t]
          IN  /\ (r.pc = "sendChild" /\ r2 # r) =>
                    /\ r2.attempt = r.attempt
                    /\ r2.lastError = r.lastError
                    /\ IF r.childIdx < Len(r.descendants)
                       THEN /\ r2.pc = "sendChild"
                            /\ r2.childIdx = r.childIdx + 1
                            /\ r2.sent = Append(r.sent,
                                 [cmd |-> "kill", sig |-> r.usedSignal,
                                  target |-> r.descendants[r.childIdx + 1],
                                  deadline |-> opts.timeoutMs])
                       ELSE /\ r2.pc = "sendRoot"
                            /\ r2.rootSends = r.rootSends + 1
                            /\ r2.sent = Append(r.sent,
                                 [cmd |-> "kill", sig |-> r.usedSignal,
                                  target |-> r.pid,
                                  deadline |-> opts.timeoutMs])
              /\ (r.pc \notin {"idle", "done", "thrown"}
                    /\ r2.lastError \in {"CommandExecution", "Timeout"}
                    /\ r2.lastError # r.lastError) =>
                    r.pc \in {"sendRoot", "escSend"}]_vars

C24_Witness ==
    /\ task[1].pc = "done"
    /\ task[1].result.success
    /\ task[1].childFailed
    /\ task[1].attempt = 0
    /\ task[1].lastError = "none"
    /\ Len(task[1].descendants) = 2
    /\ KillTargets(task[1].sent) = task[1].descendants \o <<1>>

RECURSIVE Reachable(_, _, _)
\* The PIDs reached from S in at most n rounds through the child lists of
\* the processes whose lookup did not fail.
Reachable(S, failed, n) ==
    IF n = 0 THEN S
    ELSE Reachable(S \cup UNION {Range(procTree[p]) : p \in S \ failed},
                   failed, n - 1)

\* The traversal of the current attempt of invocation t has returned.
TraversalDone(t) ==
    \/ task[t].pc \in {"sendChild", "sendRoot", "retrySleep"}
    \/ task[t].pc = "done" /\ task[t].exists = "yes"

\* C25: a child lookup that fails (command error or timeout) does not end
\* the traversal and is not thrown by it: the list returned holds exactly
\* the processes reachable from the root through the processes whose own
\* lookup answered, the root excluded, and each of them was looked up in
\* turn.
C25_LookupFailureContinues ==
    \A t \in Entered :
        /\ task[t].pc # "thrown"
        /\ TraversalDone(t) =>
              LET reached == Reachable({task[t].pid}, task[t].lookupFailed,
                                       Cardinality(TreePids))
              IN  /\ Range(task[t].descendants) = reached \ {task[t].pid}
                  /\ Range(task[t].lookedUp) = reached
                  /\ task[t].lookupFailed \subseteq reached

C25_Witness ==
    /\ TraversalDone(1)
    /\ \E i, j \in 1..Len(task[1].lookedUp) :
         /\ i < j
         /\ task[1].lookedUp[i] \in task[1].lookupFailed
         /\ procTree[task[1].lookedUp[i]] # <<>>
         /\ task[1].lookedUp[j] \notin task[1].lookupFailed
    /\ Len(task[1].descendants) = 2

\* The parent of a process listed in the tree.
ParentOf(p) == CHOOSE q \in TreePids : p \in Range(procTree[q])

RECURSIVE DepthOf(_, _)
\* The distance of a descendant p from the root.
DepthOf(p, root) == IF p = root THEN 0 ELSE 1 + DepthOf(ParentOf(p), root)

\* C26: in the list the traversal returns for a well-formed process tree,
\* every PID comes after its own parent unless the parent is the root, and
\* the PIDs come in non-decreasing depth below the root.
C26_BreadthFirstOrder ==
    \A t \in Entered :
        TraversalDone(t) =>
            LET d == task[t].descendants
                root == task[t].pid
            IN  /\ \A i \in 1..Len(d) :
                      \/ ParentOf(d[i]) = root
                      \/ \E j \in 1..(i - 1) : d[j] = ParentOf(d[i])
                /\ \A i, j \in 1..Len(d) :
                      i < j => DepthOf(d[i], root) <= DepthOf(d[j], root)

C26_Witness ==
    /\ TraversalDone(1)
    /\ task[1].descendants = <<3, 4, 2>>
    /\ ParentOf(2) = 3
    /\ task[1].lookupFailed = {}

\* C27: on Windows the call performs no escalation wait, probe or resend
\* whatever forceAfterTimeout is, and with tree:true an attempt both passes
\* the recursive-termination flag /T to taskkill and invokes the descendant
\* resolver.
C27_WindowsTreeUsesResolver ==
    \A t \in Entered :
        (isWindows /\ task[t].pid \in Pids) =>
            /\ task[t].pc \notin {"escSleep", "escProbe", "escSend"}
            /\ task[t].escalations = 0
            /\ (opts.tree /\ task[t].pc = "sendRoot") =>
                  /\ task[t].sent[Len(task[t].sent)] =
                       [cmd |-> "taskkill", target |-> task[t].pid,
                        sig |-> "/T /F", deadline |-> opts.timeoutMs]
                  /\ task[t].lookedUp # <<>>

\* C28: getCached returns the cached data, without calling the fetcher,
\* exactly when the key has an entry whose age now - timestamp is less than
\* ttlMs; an entry whose age equals ttlMs is expired and the fetcher is
\* called.
C28_ExpiresAtTtl ==
    [][\A c \in Callers, k \in Keys, ttlMs \in Ttls :
          GetCached(c, k, ttlMs) =>
              LET present == cache[k] # NoEntry
                  age == now - cache[k].timestamp
              IN  /\ calls'[c].pc = "returned" <=> (present /\ age < ttlMs)
                  /\ calls'[c].pc = "returned" =>
                        calls'[c].data = cache[k].data
                  /\ (~present \/ age >= ttlMs) =>
                        calls'[c].pc = "fetching"]_vars

C28_Witness ==
    /\ calls[1].pc = "fetching"
    /\ calls[1].started = now
    /\ calls[2].pc = "idle"
    /\ cache[calls[1].key] # NoEntry
    /\ now - cache[calls[1].key].timestamp = 1

\* C29: on a miss, the fetched result is stored with the time that is
\* current when it is stored, after the fetch has completed.
C29_StoredWithCurrentTime ==
    [][\A c \in Callers :
          FetchResolved(c) => cache'[calls[c].key].timestamp = now]_vars

\* C30: once a getCached access to a key whose entry is past its TTL has
\* completed, with the fetch resolved or rejected, that expired entry is no
\* longer in the mapping; and an entry leaves or changes only through such
\* an access, invalidateCache or clearCache.
C30_ExpiredEntryEvicted ==
    [][/\ \A c \in Callers :
            (/\ FetchResolved(c) \/ FetchRejected(c)
             /\ cache[calls[c].key] # NoEntry) =>
                cache'[calls[c].key] # cache[calls[c].key]
       /\ \A k \in Keys :
            (cache[k] # NoEntry /\ cache'[k] # cache[k]) =>
                \/ \E c \in Callers : calls[c].key = k /\ FetchResolved(c)
                \/ ClearCache
                \/ InvalidateCache(k)]_vars

\* The commands issued so far on behalf of the entry point: those of its
\* lookups and those of its killByPid invocations, the liveness probes
\* (which have a deadline of their own) left out.
IssuedWithDeadline ==
    UNION {Range(finds[i].sent) : i \in DOMAIN finds}
        \cup UNION {{c \in Range(task[t].sent) : c.cmd # "alive"} :
                       t \in Entered}

\* C31: every discovery, child-lookup and termination command issued on
\* behalf of an entry point called with timeoutMs = t carries the deadline
\* t; so do the termination commands killByName issues for the matched
\* PIDs.
C31_DeadlinePropagated ==
    \A c \in IssuedWithDeadline : c.deadline = batch.timeoutMs

\* C32: the list the traversal returns holds no PID twice, whatever the
\* child lookups report, and no descendant is signalled twice within one
\* attempt.
C32_NoDescendantTwice ==
    \A t \in Entered :
        (task[t].pid \in Pids /\ TraversalDone(t)) =>
            /\ NoDuplicates(task[t].descendants)
            /\ NoDuplicates(SelectSeq(KillTargets(task[t].sent),
                                      LAMBDA p : p # task[t].pid))

\* C33: when two getCached calls for the same key overlap, the fetcher is
\* invoked once in total: no two calls are awaiting a fetcher of their own
\* for the same key.
C33_SingleFetchWhenOverlapping ==
    \A c, d \in Callers :
        (c # d /\ calls[c].key = calls[d].key) =>
            ~(calls[c].pc = "fetching" /\ calls[d].pc = "fetching")

\* C34: the timestamp stored under a key never decreases: a fetch that
\* started earlier and completed later does not replace the entry of a
\* fetch that started later.
C34_TimestampNeverDecreases ==
    [][\A k \in Keys :
          (cache[k] # NoEntry /\ cache'[k] # NoEntry) =>
              cache'[k].timestamp >= cache[k].timestamp]_vars

\* C35: killByPid never returns success:false for a target that is not
\* running when the call returns.
C35_GoneMeansSuccess ==
    [][\A t \in DOMAIN task :
          (task[t].pc \notin {"idle", "done", "thrown"}
             /\ task'[t].pc = "done" /\ ~task'[t].result.success) =>
              task[t].pid \in alive']_vars

\* C36: no kill operation changes a cache entry other than through the
\* lookups it performs itself: the cache changes only in the step in which
\* a lookup command answers, and then only by the entry of that lookup's
\* key.  So findPidsByPort(p), called within the TTL after killByPort(p)
\* has returned, returns the PID list killByPort found before the kill.
C36_KillLeavesCacheAlone ==
    [][/\ cache' # cache =>
            \E i \in DOMAIN finds :
                /\ finds[i].pc = "lookup"
                /\ finds'[i].pc = "done"
                /\ cache' = [cache EXCEPT ![PortKey(finds[i].port)] =
                                [data |-> finds'[i].pids,
                                 timestamp |-> finds[i].started]]
       /\ (batch.api = "killByPort" /\ batch.state = "returned"
             /\ Len(finds') = 2 /\ Len(finds) = 1) =>
            /\ finds'[2].pc = "done"
            /\ finds'[2].sent = <<>>
            /\ finds'[2].pids = finds[1].pids]_vars

C36_Witness ==
    /\ batch.api = "killByPort"
    /\ batch.state = "returned"
    /\ batch.results[1].success
    /\ Len(finds) = 2
    /\ finds[1].outcome = "ok"
    /\ finds[2].outcome = "cached"
    /\ finds[2].pids = finds[1].pids
    /\ finds[2].pids[1] \notin alive

C38_SignalChangesOnceToSigkill ==
    [][\A t \in DOMAIN task :
          LET r == task[t]
              r2 == task'[t]
              first == IF r.pc = "retrySleep" THEN 1 ELSE Len(r.sent) + 1
          IN  r.pc # "idle" =>
                /\ r2.usedSignal # r.usedSignal =>
                      /\ r.pc = "escProbe"
                      /\ r.escalations = 0
                      /\ r.usedSignal = opts.signal
                      /\ r2.usedSignal = "SIGKILL"
                      /\ r2.escalations = 1
                /\ r.escalations > 0 =>
                      /\ r2.usedSignal = "SIGKILL"
                      /\ r2.escalations = r.escalations
                      /\ \A i \in first..Len(r2.sent) :
                            r2.sent[i].cmd = "kill" =>
                                r2.sent[i].sig = "SIGKILL"]_vars

C38_Witness ==
    /\ task[1].pc = "done"
    /\ opts.signal = "SIGTERM"
    /\ opts.tree
    /\ task[1].escalations = 1
    /\ task[1].attempt = 1
    /\ task[1].usedSignal = "SIGKILL"
    /\ task[1].descendants = <<2>>
    /\ task[1].sent[Len(task[1].sent)].cmd = "kill"
    /\ \A i \in 1..Len(task[1].sent) :
          task[1].sent[i].cmd = "kill" => task[1].sent[i].sig = "SIGKILL"
    /\ KillTargets(task[1].sent) = <<2, 1>>

\* C39: every killByPid call eventually returns a KillResult or throws
\* InvalidInput, for every retries value, when every subprocess completes
\* or times out and every delay elapses; and killByPids returns only after
\* every per-target kill has settled, and eventually does return.
C39_EventuallyReturns ==
    /\ [](batch.state = "returned" =>
            /\ Len(task) = Len(pids)
            /\ \A i \in 1..Len(pids) : task[i].pc \in {"done", "thrown"})
    /\ \A t \in 1..2 :
          [](t \in DOMAIN task =>
                <>(/\ t \in DOMAIN task
                   /\ \/ task[t].pc = "done"
                      \/ /\ task[t].pc = "thrown"
                         /\ task[t].lastError = "InvalidInput"))
    /\ (batch.state = "waiting") ~> (batch.state = "returned")

C39_Witness ==
    /\ batch.state = "returned"
    /\ Len(task) = 2
    /\ task[1].pc = "done"
    /\ task[2].pc = "done"
    /\ opts.tree
    /\ opts.retries = 2
    /\ task[1].attempt = 2
    /\ ~task[1].result.success
    /\ task[2].result.success
    /\ task[2].exists = "no"

\* C40: when the fetcher passed to getCached fails, the call rejects and
\* the cache mapping is left as it was: neither the start of the call nor
\* the rejection stores an entry for the key, and every existing entry, of
\* this key or another, keeps its data and timestamp.
C40_FailedFetchLeavesCache ==
    [][/\ \A c \in Callers :
            FetchRejected(c) =>
                /\ calls'[c].pc = "thrown"
                /\ \A k \in Keys : cache'[k] = cache[k]
       /\ \A c \in Callers, k \in Keys, ttlMs \in Ttls :
            GetCached(c, k, ttlMs) => \A k2 \in Keys : cache'[k2] = cache[k2]]_vars

C40_Witness ==
    \E c \in Callers :
        /\ calls[c].pc = "thrown"
        /\ cache[calls[c].key] # NoEntry
        /\ cache[calls[c].key].timestamp < calls[c].started
        /\ \E k \in Keys \ {calls[c].key} : cache[k] # NoEntry

====
